---- MODULE Spec2Model ----
(***************************************************************************)
(* Session verification of overtrack_web (lib/authentication.py): the      *)
(* verifier check_authentication, the token issuer make_cookie, the two    *)
(* gate families (Authentication / require_authentication and Login /     *)
(* require_login) and the direct call made by the overwatch game view.     *)
(*                                                                         *)
(* Python dicts (the token payload, flask.g) are functions whose DOMAIN is *)
(* the set of keys present, so that `'k' in d`, d['k'] (KeyError when      *)
(* absent) and d.get('k', default) keep their meaning.                     *)
(***************************************************************************)
EXTENDS Integers, Sequences, FiniteSets, TLC

VARIABLES
    cookie,        \* request.cookies.get('session'): <<>> (None) or <<token>>
    issued,        \* arguments of the make_cookie call that produced cookie, <<>> otherwise
    now,           \* time.time()
    url,           \* request.url
    g,             \* flask.g of the request being handled (a dict)
    user_cache,    \* overtrack_web.lib.session._user_cache (process wide dict)
    pushed,        \* sentry scopes pushed while handling the current request
    exited,        \* sentry scopes exited while handling the current request
    pc,            \* position of the request: idle, before, view, after, error, done
    calls,         \* the check_authentication calls of the current request, in order
    response,      \* what the request returns to the client
    endpoint_ran   \* whether the endpoint (view function) body was executed

vars == <<cookie, issued, now, url, g, user_cache, pushed, exited, pc, calls,
          response, endpoint_ran>>

(***************************************************************************)
(* Bounds                                                                  *)
(***************************************************************************)
MaxTime == 2          \* the clock runs over 0..MaxTime
TokenExp == 1         \* the `exp` claim carried by client-supplied tokens
MaxExpiry == 1        \* make_cookie is called with expiry in 0..MaxExpiry (or None, or the default)

(***************************************************************************)
(* Python values                                                           *)
(***************************************************************************)
None == <<>>
Some(v) == <<v>>
EmptyDict == [x \in {} |-> TRUE]
Has(d, k) == k \in DOMAIN d
Get(d, k, default) == IF k \in DOMAIN d THEN d[k] ELSE default
Opt(k, vals) == {EmptyDict} \cup {k :> v : v \in vals}

HMAC_KEY == "HMAC_KEY"
OtherKey == "not-HMAC_KEY"
SESSION_EXPIRE_TIME == 4 * 30 * 24 * 60 * 60

Audiences == {"webapp", "mobile"}
Keys == {"k1", "k2"}
UserIds == {1, 2}
Urls == {"/games", "/admin"}
LoginUrl == "/login"

\* User.user_id_index: the stored user records, by user_id.  User 2 has no record.
UserTable == (1 :> [key |-> "k1", user_id |-> 1, superuser |-> FALSE])

\* User objects handed to make_cookie.
Users == [key : Keys \cup {""}, user_id : UserIds, superuser : BOOLEAN]

(***************************************************************************)
(* jwt.encode / jwt.decode (HS256): the signature is made with a key and   *)
(* verifies only against the same key.                                     *)
(***************************************************************************)
jwt_encode(data, key) == [sig |-> key, payload |-> data]

jwt_decode_no_audience(token, key, audience, t) ==
    IF token.sig # key
    THEN [ok |-> FALSE, err |-> "Signature verification failed", data |-> EmptyDict]
    ELSE IF Has(token.payload, "exp") /\ token.payload["exp"] < t
    THEN [ok |-> FALSE, err |-> "Signature has expired", data |-> EmptyDict]
    ELSE [ok |-> TRUE, err |-> "", data |-> token.payload]

jwt_decode(token, key, audience, t) ==
    IF token.sig # key
    THEN [ok |-> FALSE, err |-> "Signature verification failed", data |-> EmptyDict]
    ELSE IF Has(token.payload, "exp") /\ token.payload["exp"] < t
    THEN [ok |-> FALSE, err |-> "Signature has expired", data |-> EmptyDict]
    ELSE IF ~Has(token.payload, "aud")
    THEN [ok |-> FALSE, err |-> "Token is missing the aud claim", data |-> EmptyDict]
    ELSE IF token.payload["aud"] # audience
    THEN [ok |-> FALSE, err |-> "Invalid audience", data |-> EmptyDict]
    ELSE [ok |-> TRUE, err |-> "", data |-> token.payload]

(***************************************************************************)
(* make_cookie and make_error                                              *)
(***************************************************************************)
Truthy(expiry) == expiry # None /\ expiry[1] # 0

make_cookie(user, audience, expiry, t) ==
    LET data == [key |-> user.key, superuser |-> user.superuser,
                 iat |-> t, aud |-> audience]
                @@ ("user-id" :> user.user_id)
        data2 == IF Truthy(expiry) THEN ("exp" :> (t + expiry[1])) @@ data ELSE data
    IN jwt_encode(data2, HMAC_KEY)

RetNone == [kind |-> "None", status |-> 0, message |-> "",
            authenticate_url |-> "", redirect |-> ""]

make_error(reason, status, request_url) ==
    [kind |-> "Response", status |-> status, message |-> "Forbidden: " \o reason,
     authenticate_url |-> LoginUrl, redirect |-> LoginUrl \o "?next=" \o request_url]

Raise(exc) == [kind |-> "Raise", status |-> 500, message |-> exc,
               authenticate_url |-> "", redirect |-> ""]

redirect_to_login_no_next(request_url) ==
    [kind |-> "Redirect", status |-> 302, message |-> "",
     authenticate_url |-> "", redirect |-> LoginUrl]

\* redirect(url_for('login.login', next=request.url))
redirect_to_login(request_url) ==
    [kind |-> "Redirect", status |-> 302, message |-> "",
     authenticate_url |-> "", redirect |-> LoginUrl \o "?next=" \o request_url]

(***************************************************************************)
(* check_authentication                                                    *)
(***************************************************************************)
session_in_g_never(gv) == FALSE

\* `'session' in g`
session_in_g(gv) == Has(gv, "session")

\* `'scope' in g`
scope_in_g(gv) == Has(gv, "scope")

\* superuser_required and not user_data.get('superuser', False)
not_superuser(superuser_required, user_data) ==
    superuser_required /\ ~Get(user_data, "superuser", FALSE)

user_id_index_get_or_new(user_id) ==
    IF user_id \in DOMAIN UserTable
    THEN Some(UserTable[user_id])
    ELSE Some([key |-> "new", user_id |-> user_id, superuser |-> FALSE])

\* User.user_id_index.get(user_id): Some(record), or None for User.DoesNotExist
user_id_index_get(user_id) ==
    IF user_id \in DOMAIN UserTable THEN Some(UserTable[user_id]) ELSE None

\* `not key` for key = user_data.get('key')
key_missing(user_data) == ~Has(user_data, "key") \/ user_data["key"] = ""

Session(user_id, key, superuser) ==
    [user_id |-> user_id, key |-> key, superuser |-> superuser]

\* What one call does: its return value (or the exception it raises), flask.g,
\* the user cache and the scope counters after it, and the steps it took.
Outcome(ret, gv, uc, np, nx, did) ==
    [ret |-> ret, g |-> gv, user_cache |-> uc, pushed |-> np, exited |-> nx, did |-> did]

check_authentication(gv, ck, uc, np, nx, t, request_url, allow_audience, superuser_required, check_user) ==
    IF session_in_g(gv)
    THEN Outcome(RetNone, gv, uc, np, nx, {})
    ELSE
    LET funclocal == ~scope_in_g(gv)
        np1 == IF funclocal THEN np + 1 ELSE np
    IN
    IF ck = None
    THEN Outcome(make_error("No session found", 401, request_url), gv, uc, np1, nx,
                 {"cookie"})
    ELSE
    LET dec == jwt_decode(ck[1], HMAC_KEY, allow_audience, t) IN
    IF ~dec.ok
    THEN Outcome(make_error(dec.err, 401, request_url), gv, uc, np1, nx,
                 {"cookie", "decode"})
    ELSE
    LET user_data == dec.data
        did1 == IF check_user /\ Has(user_data, "user-id")
                THEN {"cookie", "decode", "lookup"} ELSE {"cookie", "decode"}
    IN
    IF check_user /\ ~Has(user_data, "user-id")
    THEN Outcome(Raise("KeyError: 'user-id'"), gv, uc, np1, nx, did1)
    ELSE
    LET found == IF check_user THEN user_id_index_get(user_data["user-id"]) ELSE None IN
    IF check_user /\ found = None
    THEN Outcome(make_error("User invalid", 401, request_url), gv, uc, np1, nx, did1)
    ELSE
    LET uc1 == IF check_user THEN (found[1].key :> found[1]) @@ uc ELSE uc IN
    IF not_superuser(superuser_required, user_data)
    THEN Outcome(make_error("Not superuser", 403, request_url), gv, uc1, np1, nx, did1)
    ELSE IF key_missing(user_data) /\ ~Has(user_data, "battletag")
    THEN Outcome(Raise("KeyError: 'battletag'"), gv, uc1, np1, nx, did1)
    ELSE IF ~Has(user_data, "user-id")
    THEN Outcome(Raise("KeyError: 'user-id'"), gv, uc1, np1, nx, did1)
    ELSE
    LET key == IF key_missing(user_data) THEN user_data["battletag"] ELSE user_data["key"]
        session == Session(user_data["user-id"], key, Get(user_data, "superuser", FALSE))
        gv1 == ("session" :> session) @@ gv
        nx1 == IF funclocal THEN nx + 1 ELSE nx
    IN Outcome(RetNone, gv1, uc1, np1, nx1, did1)

(***************************************************************************)
(* The requests.  A request runs the blueprint's before_request hook (if   *)
(* a mixin is installed), then the endpoint unless the hook answered, then *)
(* the after_request hook.                                                 *)
(***************************************************************************)

\* Payloads of correctly signed tokens a client may hold: issued by earlier
\* versions or other issuers sharing the secret, with any claim absent.
ClientPayloads ==
    { a @@ e @@ k @@ u @@ s @@ b :
        a \in {"aud" :> x : x \in Audiences},
        e \in Opt("exp", {TokenExp}),
        k \in Opt("key", Keys),
        u \in Opt("user-id", UserIds),
        s \in Opt("superuser", BOOLEAN),
        b \in Opt("battletag", {"k1"}) }

ClientTokens ==
    { jwt_encode(p, HMAC_KEY) : p \in ClientPayloads }
    \cup { jwt_encode(("aud" :> "webapp") @@ ("user-id" :> 1) @@ [key |-> "k1", superuser |-> sup], sk) :
             sup \in BOOLEAN, sk \in {OtherKey} }
    \cup { jwt_encode(("user-id" :> 1) @@ [key |-> "k1", superuser |-> TRUE], HMAC_KEY) }

\* make_cookie's expiry argument: None, a number of seconds, or the default.
Expiries == {None} \cup {Some(n) : n \in 0..MaxExpiry} \cup {Some(SESSION_EXPIRE_TIME)}

NoResponse == [kind |-> "None", status |-> 0, message |-> "",
               authenticate_url |-> "", redirect |-> ""]
EndpointResponse == [kind |-> "Endpoint", status |-> 200, message |-> "",
                     authenticate_url |-> "", redirect |-> ""]

Call(by, gv, allow_audience, superuser_required, check_user, out) ==
    [by |-> by, allow_audience |-> allow_audience,
     superuser_required |-> superuser_required, check_user |-> check_user,
     had_session |-> Has(gv, "session"), ret |-> out.ret, did |-> out.did]

Init ==
    /\ cookie = None
    /\ issued = None
    /\ now = 0
    /\ url = "/games"
    /\ g = EmptyDict
    /\ user_cache = EmptyDict
    /\ pushed = 0
    /\ exited = 0
    /\ pc = "idle"
    /\ calls = <<>>
    /\ response = NoResponse
    /\ endpoint_ran = FALSE

\* time.time() advances between requests
Tick ==
    /\ pc = "idle"
    /\ now < MaxTime
    /\ now' = now + 1
    /\ UNCHANGED <<cookie, issued, url, g, user_cache, pushed, exited, pc, calls,
                   response, endpoint_ran>>

\* The client sends no cookie, or some token it holds.
ClientSetsCookie ==
    /\ pc = "idle"
    /\ \E c \in {None} \cup {Some(tk) : tk \in ClientTokens} :
         /\ c # cookie
         /\ cookie' = c
    /\ issued' = None
    /\ UNCHANGED <<now, url, g, user_cache, pushed, exited, pc, calls, response,
                   endpoint_ran>>

\* The login endpoint issues a cookie with make_cookie, which the client keeps.
IssueCookie ==
    /\ pc = "idle"
    /\ \E user \in Users, audience \in Audiences, expiry \in Expiries :
         /\ cookie' = Some(make_cookie(user, audience, expiry, now))
         /\ issued' = Some([user |-> user, audience |-> audience, expiry |-> expiry,
                            iat |-> now])
    /\ UNCHANGED <<now, url, g, user_cache, pushed, exited, pc, calls, response,
                   endpoint_ran>>

\* A request arrives, with a fresh flask.g.
StartRequest ==
    /\ pc = "idle"
    /\ \E u \in Urls : url' = u
    /\ pc' = "before"
    /\ UNCHANGED <<cookie, issued, now, g, user_cache, pushed, exited, calls, response,
                   endpoint_ran>>

\* The request is for a blueprint with no mixin: no before_request hook.
NoBeforeRequest ==
    /\ pc = "before"
    /\ pc' = "view"
    /\ UNCHANGED <<cookie, issued, now, url, g, user_cache, pushed, exited, calls,
                   response, endpoint_ran>>

\* g.scope_manager = sentry_sdk.push_scope(); g.scope = g.scope_manager.__enter__()
enter_scope(gv, np) == ("scope_manager" :> (np + 1)) @@ ("scope" :> (np + 1)) @@ gv

\* Authentication.init_app.before_request
AuthenticationBeforeRequest(audience, superuser_required, check_user) ==
    /\ pc = "before"
    /\ LET g1 == enter_scope(g, pushed)
           out == check_authentication(g1, cookie, user_cache, pushed + 1, exited, now, url,
                                       audience, superuser_required, check_user)
       IN /\ g' = out.g
          /\ user_cache' = out.user_cache
          /\ pushed' = out.pushed
          /\ exited' = out.exited
          /\ calls' = Append(calls, Call("Authentication", g1, audience,
                                         superuser_required, check_user, out))
          /\ response' = IF out.ret.kind = "Response" THEN out.ret ELSE response
          /\ pc' = CASE out.ret.kind = "None" -> "view"
                     [] out.ret.kind = "Response" -> "after"
                     [] OTHER -> "error"
    /\ UNCHANGED <<cookie, issued, now, url, endpoint_ran>>

\* Login.init_app.before_request
LoginBeforeRequest(check_user) ==
    /\ pc = "before"
    /\ LET g1 == enter_scope(g, pushed)
           out == check_authentication(g1, cookie, user_cache, pushed + 1, exited, now, url,
                                       "webapp", FALSE, check_user)
       IN /\ g' = out.g
          /\ user_cache' = out.user_cache
          /\ pushed' = out.pushed
          /\ exited' = out.exited
          /\ calls' = Append(calls, Call("Login", g1, "webapp", FALSE, check_user, out))
          /\ response' = IF out.ret.kind = "Response"
                         THEN redirect_to_login(url) ELSE response
          /\ pc' = CASE out.ret.kind = "None" -> "view"
                     [] out.ret.kind = "Response" -> "after"
                     [] OTHER -> "error"
    /\ UNCHANGED <<cookie, issued, now, url, endpoint_ran>>

\* An endpoint with no decorator, which does not call the verifier itself.
PlainEndpoint ==
    /\ pc = "view"
    /\ endpoint_ran' = TRUE
    /\ response' = EndpointResponse
    /\ pc' = "after"
    /\ UNCHANGED <<cookie, issued, now, url, g, user_cache, pushed, exited, calls>>

\* require_authentication.wrap.check_auth
RequireAuthenticationEndpoint(allow_audience, superuser_required, check_user) ==
    /\ pc = "view"
    /\ LET g1 == ("scope" :> (pushed + 1)) @@ g
           out == check_authentication(g1, cookie, user_cache, pushed + 1, exited, now, url,
                                       allow_audience, superuser_required, check_user)
       IN /\ g' = out.g
          /\ user_cache' = out.user_cache
          /\ pushed' = out.pushed
          /\ exited' = out.exited + 1
          /\ calls' = Append(calls, Call("require_authentication", g1, allow_audience,
                                         superuser_required, check_user, out))
          /\ endpoint_ran' = (out.ret.kind = "None")
          /\ response' = CASE out.ret.kind = "None" -> EndpointResponse
                           [] out.ret.kind = "Response" -> out.ret
                           [] OTHER -> response
          /\ pc' = IF out.ret.kind = "Raise" THEN "error" ELSE "after"
    /\ UNCHANGED <<cookie, issued, now, url>>

\* require_login.wrap.check_login
RequireLoginEndpoint(check_user) ==
    /\ pc = "view"
    /\ LET out == check_authentication(g, cookie, user_cache, pushed, exited, now, url,
                                       "webapp", FALSE, check_user)
       IN /\ g' = out.g
          /\ user_cache' = out.user_cache
          /\ pushed' = out.pushed
          /\ exited' = out.exited
          /\ calls' = Append(calls, Call("require_login", g, "webapp", FALSE, check_user, out))
          /\ endpoint_ran' = (out.ret.kind = "None")
          /\ response' = CASE out.ret.kind = "None" -> EndpointResponse
                           [] out.ret.kind = "Response" -> redirect_to_login(url)
                           [] OTHER -> response
          /\ pc' = IF out.ret.kind = "Raise" THEN "error" ELSE "after"
    /\ UNCHANGED <<cookie, issued, now, url>>

\* views.overwatch.game.game: the endpoint runs and calls check_authentication()
\* itself to decide whether to sign the frames URL.
GameEndpoint ==
    /\ pc = "view"
    /\ LET out == check_authentication(g, cookie, user_cache, pushed, exited, now, url,
                                       "webapp", FALSE, FALSE)
       IN /\ g' = out.g
          /\ user_cache' = out.user_cache
          /\ pushed' = out.pushed
          /\ exited' = out.exited
          /\ calls' = Append(calls, Call("game", g, "webapp", FALSE, FALSE, out))
          /\ endpoint_ran' = TRUE
          /\ response' = IF out.ret.kind = "Raise" THEN response ELSE EndpointResponse
          /\ pc' = IF out.ret.kind = "Raise" THEN "error" ELSE "after"
    /\ UNCHANGED <<cookie, issued, now, url>>

\* after_request of Authentication and of Login: if 'scope_manager' in g: __exit__
after_request(gv, nx) == IF Has(gv, "scope_manager") THEN nx + 1 ELSE nx

AfterRequest ==
    /\ pc = "after"
    /\ exited' = after_request(g, exited)
    /\ pc' = "done"
    /\ UNCHANGED <<cookie, issued, now, url, g, user_cache, pushed, calls, response,
                   endpoint_ran>>

\* An exception left the hook or the endpoint.  Flask answers 500; whether the
\* after_request functions run on that path depends on the Flask version and on
\* PROPAGATE_EXCEPTIONS, so both outcomes are possible.
ExceptionWithAfterRequest ==
    /\ pc = "error"
    /\ exited' = after_request(g, exited)
    /\ response' = Raise("Internal Server Error")
    /\ pc' = "done"
    /\ UNCHANGED <<cookie, issued, now, url, g, user_cache, pushed, calls, endpoint_ran>>

ExceptionWithoutAfterRequest ==
    /\ pc = "error"
    /\ response' = Raise("Internal Server Error")
    /\ pc' = "done"
    /\ UNCHANGED <<cookie, issued, now, url, g, user_cache, pushed, exited, calls,
                   endpoint_ran>>

\* The request context is popped: flask.g is discarded.
EndRequest ==
    /\ pc = "done"
    /\ g' = EmptyDict
    /\ pushed' = 0
    /\ exited' = 0
    /\ calls' = <<>>
    /\ response' = NoResponse
    /\ endpoint_ran' = FALSE
    /\ pc' = "idle"
    /\ UNCHANGED <<cookie, issued, now, url, user_cache>>

Handlers ==
    \/ NoBeforeRequest
    \/ \E a \in Audiences, su \in BOOLEAN, cu \in BOOLEAN : AuthenticationBeforeRequest(a, su, cu)
    \/ \E cu \in BOOLEAN : LoginBeforeRequest(cu)
    \/ PlainEndpoint
    \/ \E a \in Audiences, su \in BOOLEAN, cu \in BOOLEAN : RequireAuthenticationEndpoint(a, su, cu)
    \/ \E cu \in BOOLEAN : RequireLoginEndpoint(cu)
    \/ GameEndpoint
    \/ AfterRequest
    \/ ExceptionWithAfterRequest
    \/ ExceptionWithoutAfterRequest
    \/ EndRequest

\* Requests carrying whatever token the client holds.
Next ==
    \/ Tick
    \/ ClientSetsCookie
    \/ StartRequest
    \/ Handlers

Spec == Init /\ [][Next]_vars

\* Requests carrying a cookie the login endpoint issued with make_cookie.
NextIssued ==
    \/ Tick
    \/ IssueCookie
    \/ StartRequest
    \/ Handlers

SpecIssued == Init /\ [][NextIssued]_vars

(***************************************************************************)
(* Properties                                                              *)
(***************************************************************************)
LastCall == calls[Len(calls)]
Payload == cookie[1].payload

\* The token's signature validates against the secret, its aud is the expected
\* audience and its exp, if present, is not in the past.
ValidToken(ck, audience, t) ==
    /\ ck # None
    /\ ck[1].sig = HMAC_KEY
    /\ Has(ck[1].payload, "aud") /\ ck[1].payload["aud"] = audience
    /\ Has(ck[1].payload, "exp") => ck[1].payload["exp"] >= t

\* The token carries user-id and a usable key (key, or the legacy battletag).
CompleteToken(ck) ==
    /\ ck # None
    /\ Has(ck[1].payload, "user-id")
    /\ \/ Has(ck[1].payload, "key") /\ ck[1].payload["key"] # ""
       \/ Has(ck[1].payload, "battletag")

\* C1: whenever the token's superuser claim is false or absent, every call of
\* check_authentication with superuser_required=true is rejected with status 403,
\* and with superuser=true it succeeds, also for a call made after an earlier
\* call of the same request.  (Stated for tokens that verify, carry user-id and
\* a key, and whose user exists when check_user is set.)
C1_SuperuserRequiredEveryCall ==
    \A i \in 1..Len(calls) :
        LET c == calls[i] IN
        (/\ c.superuser_required
         /\ ValidToken(cookie, c.allow_audience, now)
         /\ CompleteToken(cookie)
         /\ c.check_user => Payload["user-id"] \in DOMAIN UserTable)
        => IF Get(Payload, "superuser", FALSE)
           THEN c.ret.kind = "None"
           ELSE c.ret.kind = "Response" /\ c.ret.status = 403

\* C2: request-scoped state holds a Session only if a call of this request
\* verified a token whose signature validates against the secret, whose aud is
\* the audience that call expected and whose exp, if present, is not in the
\* past; a call that returned a rejection leaves no Session attached.
C2_SessionOnlyAfterVerification ==
    /\ Has(g, "session") =>
         \E i \in 1..Len(calls) :
            /\ ~calls[i].had_session
            /\ calls[i].ret.kind = "None"
            /\ ValidToken(cookie, calls[i].allow_audience, now)
    /\ \A i \in 1..Len(calls) :
         calls[i].ret.kind = "Response" => (~Has(g, "session") /\ i = Len(calls))

C2_Witness ==
    /\ Has(g, "session")
    /\ Len(calls) = 2
    /\ Has(Payload, "exp")
    /\ calls[1].allow_audience = "mobile"

\* C3: every call of check_authentication ends in success (None, Session
\* attached), in a rejection with status 401 or in a rejection with status 403;
\* it never raises.
C3_NeverRaises ==
    \A i \in 1..Len(calls) :
        \/ calls[i].ret.kind = "None" /\ Has(g, "session")
        \/ calls[i].ret.kind = "Response" /\ calls[i].ret.status \in {401, 403}

\* C4: once request-scoped state holds a Session, a further call of
\* check_authentication in that request, whatever its audience and flags,
\* returns success without reading the cookie, decoding the token or looking up
\* the user, and leaves the stored Session and the user cache unchanged.
C4_ShortCircuit ==
    [][ (Len(calls') = Len(calls) + 1 /\ Has(g, "session"))
        => /\ calls'[Len(calls')].ret.kind = "None"
           /\ calls'[Len(calls')].did = {}
           /\ Has(g', "session") /\ g'["session"] = g["session"]
           /\ user_cache' = user_cache ]_vars

C4_Witness ==
    /\ Len(calls) = 2
    /\ calls[2].had_session
    /\ calls[2].superuser_required /\ calls[2].check_user
    /\ calls[2].allow_audience # calls[1].allow_audience
    /\ ~Get(Payload, "superuser", FALSE)

\* C5: the token make_cookie produces for a user record and an audience, when
\* checked with the same audience before its expiry, succeeds and attaches a
\* Session whose user_id, key and superuser are the record's.  (Stated for the
\* first check of a request, made with neither policy flag set.)
C5_CookieRoundTrip ==
    \A i \in 1..Len(calls) :
        LET c == calls[i] IN
        (/\ issued # None
         /\ ~c.had_session
         /\ ~c.superuser_required /\ ~c.check_user
         /\ c.allow_audience = issued[1].audience
         /\ \/ issued[1].expiry = None
            \/ now < issued[1].iat + issued[1].expiry[1])
        => /\ c.ret.kind = "None"
           /\ Has(g, "session")
           /\ g["session"].user_id = issued[1].user.user_id
           /\ g["session"].key = issued[1].user.key
           /\ g["session"].superuser = issued[1].user.superuser

\* C6: with check_user requested and a token that verifies but whose user-id has
\* no user record, a call that runs the verification is rejected with status 401
\* and message "User invalid", attaches no Session and leaves the user cache
\* unchanged, whatever superuser_required and the token's superuser claim are.
C6_MissingUserRejected ==
    [][ (/\ Len(calls') = Len(calls) + 1
         /\ ~calls'[Len(calls')].had_session
         /\ calls'[Len(calls')].check_user
         /\ ValidToken(cookie, calls'[Len(calls')].allow_audience, now)
         /\ Has(Payload, "user-id")
         /\ Payload["user-id"] \notin DOMAIN UserTable)
        => /\ calls'[Len(calls')].ret.kind = "Response"
           /\ calls'[Len(calls')].ret.status = 401
           /\ calls'[Len(calls')].ret.message = "Forbidden: User invalid"
           /\ ~Has(g', "session")
           /\ user_cache' = user_cache ]_vars

C6_Witness ==
    /\ calls # <<>>
    /\ LastCall.check_user /\ LastCall.superuser_required /\ ~LastCall.had_session
    /\ ValidToken(cookie, LastCall.allow_audience, now)
    /\ Has(Payload, "user-id") /\ Payload["user-id"] \notin DOMAIN UserTable
    /\ ~Get(Payload, "superuser", FALSE)
    /\ LastCall.ret.status = 401

\* C7: the token make_cookie issues contains exp = iat + expiry exactly when the
\* expiry argument is not None (so also for an expiry of 0), and no exp when it
\* is None.
C7_ExpIffExpiryGiven ==
    issued # None =>
        IF issued[1].expiry # None
        THEN /\ Has(Payload, "exp")
             /\ Payload["exp"] = Payload["iat"] + issued[1].expiry[1]
        ELSE ~Has(Payload, "exp")

Gates == {"Authentication", "Login", "require_authentication", "require_login"}

\* C8: in a request that passed through a gate, the endpoint is executed if and
\* only if no gate's check_authentication call returned a rejection or raised;
\* on a rejection the error gates answer with the verifier's own response
\* (status 401 or 403) and the redirect gates with a redirect to the login
\* endpoint whose next parameter is the requested URL.
C8_GateDecides ==
    (pc \in {"after", "done"} /\ calls # <<>> /\ calls[1].by \in Gates) =>
        /\ endpoint_ran <=>
             \A i \in 1..Len(calls) : calls[i].by \in Gates => calls[i].ret.kind = "None"
        /\ \A i \in 1..Len(calls) :
             (calls[i].by \in Gates /\ calls[i].ret.kind = "Response") =>
                IF calls[i].by \in {"Authentication", "require_authentication"}
                THEN /\ response = calls[i].ret
                     /\ response.status \in {401, 403}
                ELSE /\ response.kind = "Redirect"
                     /\ response.redirect = "/login?next=" \o url

C8_Witness ==
    /\ pc = "done"
    /\ Len(calls) = 1
    /\ LastCall.by = "require_login"
    /\ LastCall.ret.message = "Forbidden: User invalid"
    /\ url = "/admin"
    /\ ~endpoint_ran

\* C9: every diagnostic scope entered while handling a request has been exited
\* when the request completes, on the success path and on every rejection path.
\* (Stated for requests in which no call raised.)
C9_ScopesBalanced ==
    (pc = "done" /\ \A i \in 1..Len(calls) : calls[i].ret.kind # "Raise")
        => pushed = exited

\* C10: after a successful check_authentication call with check_user requested,
\* the user cache maps the key of the Session that call attached to the user
\* record found for the token's user-id.
C10_CacheKeyedBySessionKey ==
    \A i \in 1..Len(calls) :
        (calls[i].check_user /\ ~calls[i].had_session /\ calls[i].ret.kind = "None")
        => /\ Has(user_cache, g["session"].key)
           /\ user_cache[g["session"].key] = UserTable[g["session"].user_id]

====
